---- MODULE Spec2Model ----
(***************************************************************************)
(* Vokasi Assistant (app.py): a Streamlit script that answers questions    *)
(* with a retrieval-augmented chain and keeps the transcript in            *)
(* st.session_state.messages.                                              *)
(*                                                                         *)
(* The script is executed top to bottom once per interaction ("script      *)
(* run").  The model follows one browser session: the position of the      *)
(* running script (pc), the session state, the resource cache, the widgets *)
(* on the page and the rerun request the page has sent.  A widget event    *)
(* that arrives while the script is running is served at the next st.*     *)
(* call of the script: the run is unwound there and a new run starts.      *)
(*                                                                         *)
(* Text is a sequence of one-character strings.                            *)
(***************************************************************************)
EXTENDS Integers, Sequences, FiniteSets, TLC

VARIABLES
    secrets,        \* keys of st.secrets
    components_ok,  \* whether the constructors in load_components succeed
    cache,          \* st.cache_resource entry of load_components
    session_state,  \* st.session_state
    pc,             \* position of the script run ("idle": no run)
    button,         \* value st.button returns in this run
    user_prompt,    \* value st.chat_input returns in this run (<<>>: None)
    rag_chain,      \* whether this run has built rag_chain
    response,       \* the script's variable response
    rendered,       \* turns drawn by the history loop in this run
    drawn,          \* widgets this run has drawn
    shown,          \* widgets on the page
    request,        \* rerun request sent by the page, not yet served
    trace,          \* what the last rag_chain.invoke of this run did
    outcome,        \* how the last run that ended did end
    atStart,        \* transcript when the current interaction was accepted
    submits,        \* questions accepted since the transcript was last reset
                    \* (kept only while allOk)
    allOk,          \* every question accepted since then was answered or is
                    \* running
    viaReset        \* this run was started by the reset's st.rerun()

vars == <<secrets, components_ok, cache, session_state, pc, button,
          user_prompt, rag_chain, response, rendered, drawn, shown, request,
          trace, outcome, atStart, submits, allOk, viaReset>>

envVars == <<secrets, components_ok>>
histVars == <<atStart, submits, allOk, viaReset>>

-----------------------------------------------------------------------------
(* Bounds and inputs *)

MaxTurns == 4

K == 3

Questions == { <<"a">>, <<"b", "a">> }

ChunkTexts == { <<>>, <<"a">>, <<"\n", "b">> }

Answers == { <<"x">>, <<"a", "y">> }

Documents == { [page_content |-> t] : t \in ChunkTexts }

SeqsUpTo(S, n) == UNION { [1..m -> S] : m \in 0..n }

\* retriever: at most k documents of the index, in the index's ranking
RetrieverResults == SeqsUpTo(Documents, K)

-----------------------------------------------------------------------------
(* The RAG chain *)

prompt_template ==
    << "Instruksi", "Konteks:", "{context}", "Pertanyaan:", "{question}",
       "Jawaban yang Bermanfaat:" >>

RECURSIVE Join(_, _)
Join(sep, parts) ==
    IF parts = <<>> THEN <<>>
    ELSE IF Len(parts) = 1 THEN parts[1]
    ELSE parts[1] \o sep \o Join(sep, Tail(parts))

format_docs_single_newline(docs) ==
    Join(<<"\n">>, [i \in 1..Len(docs) |-> docs[i].page_content])

format_docs(docs) ==
    Join(<<"\n", "\n">>, [i \in 1..Len(docs) |-> docs[i].page_content])

RECURSIVE Substitute(_, _)
Substitute(template, kwargs) ==
    IF template = <<>> THEN <<>>
    ELSE LET tok == Head(template)
             piece == IF tok = "{context}" THEN kwargs.context
                      ELSE IF tok = "{question}" THEN kwargs.question
                      ELSE <<tok>>
         IN  piece \o Substitute(Tail(template), kwargs)

PromptFormat_swapped(context, question) ==
    Substitute(prompt_template, [context |-> question, question |-> context])

PromptFormat(context, question) ==
    Substitute(prompt_template, [context |-> context, question |-> question])

StrOutputParser_first_char(message) ==
    SubSeq(message.content, 1, 1)

StrOutputParser(message) ==
    message.content

NoTrace ==
    [called |-> FALSE, answered |-> FALSE, question |-> <<>>, docs |-> <<>>,
     context |-> <<>>, prompt |-> <<>>, message |-> [content |-> <<>>]]

\* rag_chain.invoke(question) up to the call of the completion provider
ChainInput(question, docs) ==
    LET context == format_docs(docs)
    IN  [called |-> TRUE, answered |-> FALSE, question |-> question,
         docs |-> docs, context |-> context,
         prompt |-> PromptFormat(context, question),
         message |-> [content |-> <<>>]]

-----------------------------------------------------------------------------
(* Session state and turns *)

Transcript ==
    IF session_state.has_messages THEN session_state.messages ELSE <<>>

UserTurn(text) == [role |-> "user", content |-> text]

AssistantTurn_user_role(text) == [role |-> "user", content |-> text]

AssistantTurn(text) == [role |-> "assistant", content |-> text]

AppendTurn_prepend(messages, turn) == <<turn>> \o messages

AppendTurn(messages, turn) == Append(messages, turn)

ResetMessages_keep(ss) == ss

ResetMessages(ss) == [has_messages |-> TRUE, messages |-> <<>>]

ComponentsMissing_never(c) == FALSE

ComponentsMissing(c) == c # "ok"

-----------------------------------------------------------------------------
(* The script runner *)

NoRequest == [kind |-> "none", text |-> <<>>]

\* positions whose code calls st.* before anything else: a pending rerun
\* request unwinds the run there
IsYield ==
    \/ pc \in {"secrets", "sidebar", "input", "echo", "show"}
    \/ pc = "render" /\ Transcript # <<>>
    \/ pc = "load" /\ cache = "unset" /\ ~components_ok

\* turns the running script still appends once a request is pending
Outstanding == IF pc \in {"append", "store"} THEN 1 ELSE 0

NewRun(btn, prompt) ==
    /\ pc' = "secrets"
    /\ button' = btn
    /\ user_prompt' = prompt
    /\ rag_chain' = FALSE
    /\ response' = <<>>
    /\ rendered' = <<>>
    /\ drawn' = {}
    /\ trace' = NoTrace

Accept(req) ==
    /\ NewRun(req.kind = "button", req.text)
    /\ request' = NoRequest
    /\ atStart' = Transcript
    /\ viaReset' = FALSE

Recorded(ok, req) ==
    IF ~ok THEN <<>>
    ELSE IF req.kind = "chat" THEN Append(submits, req.text)
    ELSE submits

EndRun(how, widgets) ==
    /\ pc' = "idle"
    /\ outcome' = how
    /\ drawn' = widgets
    /\ shown' = widgets

Init ==
    /\ secrets \in { {}, {"GOOGLE_API_KEY"} }
    /\ components_ok \in BOOLEAN
    /\ cache = "unset"
    /\ session_state = [has_messages |-> FALSE, messages |-> <<>>]
    /\ pc = "secrets"
    /\ button = FALSE
    /\ user_prompt = <<>>
    /\ rag_chain = FALSE
    /\ response = <<>>
    /\ rendered = <<>>
    /\ drawn = {}
    /\ shown = {}
    /\ request = NoRequest
    /\ trace = NoTrace
    /\ outcome = "none"
    /\ atStart = <<>>
    /\ submits = <<>>
    /\ allOk = TRUE
    /\ viaReset = FALSE

(* Page events *)

ClickReset ==
    /\ "button" \in shown
    /\ request = NoRequest
    /\ request' = [kind |-> "button", text |-> <<>>]
    /\ UNCHANGED <<envVars, cache, session_state, pc, button, user_prompt,
                   rag_chain, response, rendered, drawn, shown, trace,
                   outcome, histVars>>

SubmitQuestion(q) ==
    /\ "chat_input" \in shown
    /\ request = NoRequest
    /\ Len(Transcript) + Outstanding + 2 <= MaxTurns
    /\ request' = [kind |-> "chat", text |-> q]
    /\ UNCHANGED <<envVars, cache, session_state, pc, button, user_prompt,
                   rag_chain, response, rendered, drawn, shown, trace,
                   outcome, histVars>>

RequestRerun ==
    /\ request = NoRequest
    /\ request' = [kind |-> "rerun", text |-> <<>>]
    /\ UNCHANGED <<envVars, cache, session_state, pc, button, user_prompt,
                   rag_chain, response, rendered, drawn, shown, trace,
                   outcome, histVars>>

StartRun ==
    /\ pc = "idle"
    /\ request # NoRequest
    /\ Accept(request)
    /\ submits' = Recorded(allOk, request)
    /\ UNCHANGED <<envVars, cache, session_state, shown, outcome, allOk>>

Interrupt ==
    /\ IsYield
    /\ request # NoRequest
    /\ Accept(request)
    /\ outcome' = IF pc \in {"echo", "show"} THEN "cancelled"
                  ELSE "interrupted"
    /\ allOk' = (allOk /\ user_prompt = <<>>)
    /\ submits' = Recorded(allOk', request)
    /\ UNCHANGED <<envVars, cache, session_state, shown>>

(* The script, top to bottom *)

\* lines 9-24
Secrets ==
    /\ pc = "secrets"
    /\ request = NoRequest
    /\ IF "GOOGLE_API_KEY" \in secrets
       THEN /\ pc' = "load"
            /\ UNCHANGED <<outcome, drawn, shown, allOk>>
       ELSE /\ EndRun("stopped", drawn)
            /\ allOk' = (allOk /\ user_prompt = <<>>)
    /\ submits' = IF allOk' THEN submits ELSE <<>>
    /\ UNCHANGED <<envVars, cache, session_state, button, user_prompt,
                   rag_chain, response, rendered, request, trace, atStart,
                   viaReset>>

\* lines 30-68
Load ==
    /\ pc = "load"
    /\ ~(IsYield /\ request # NoRequest)
    /\ cache' = IF cache # "unset" THEN cache
                ELSE IF components_ok THEN "ok" ELSE "fail"
    /\ IF ComponentsMissing(cache')
       THEN /\ EndRun("stopped", drawn)
            /\ allOk' = (allOk /\ user_prompt = <<>>)
       ELSE /\ pc' = "chain"
            /\ UNCHANGED <<outcome, drawn, shown, allOk>>
    /\ submits' = IF allOk' THEN submits ELSE <<>>
    /\ UNCHANGED <<envVars, session_state, button, user_prompt, rag_chain,
                   response, rendered, request, trace, atStart, viaReset>>

\* lines 74-100
BuildChain ==
    /\ pc = "chain"
    /\ rag_chain' = TRUE
    /\ pc' = "sidebar"
    /\ UNCHANGED <<envVars, cache, session_state, button, user_prompt,
                   response, rendered, drawn, shown, request, trace, outcome,
                   histVars>>

\* lines 106-110
Sidebar ==
    /\ pc = "sidebar"
    /\ request = NoRequest
    /\ shown' = shown \cup {"button"}
    /\ IF button
       THEN /\ session_state' = ResetMessages(session_state)
            /\ NewRun(FALSE, <<>>)
            /\ outcome' = "rerun"
            /\ viaReset' = TRUE
            /\ submits' = <<>>
            /\ allOk' = TRUE
       ELSE /\ pc' = "init"
            /\ drawn' = drawn \cup {"button"}
            /\ UNCHANGED <<session_state, button, user_prompt, rag_chain,
                           response, rendered, trace, outcome, viaReset,
                           submits, allOk>>
    /\ UNCHANGED <<envVars, cache, request, atStart>>

\* lines 113-114
InitMessages ==
    /\ pc = "init"
    /\ session_state' = IF session_state.has_messages THEN session_state
                        ELSE [has_messages |-> TRUE, messages |-> <<>>]
    /\ pc' = "render"
    /\ UNCHANGED <<envVars, cache, button, user_prompt, rag_chain, response,
                   rendered, drawn, shown, request, trace, outcome, histVars>>

\* lines 117-119
Render ==
    /\ pc = "render"
    /\ ~(IsYield /\ request # NoRequest)
    /\ rendered' = session_state.messages
    /\ pc' = "input"
    /\ UNCHANGED <<envVars, cache, session_state, button, user_prompt,
                   rag_chain, response, drawn, shown, request, trace, outcome,
                   histVars>>

\* line 122
ChatInput ==
    /\ pc = "input"
    /\ request = NoRequest
    /\ IF user_prompt # <<>>
       THEN /\ pc' = "append"
            /\ drawn' = drawn \cup {"chat_input"}
            /\ shown' = shown \cup {"chat_input"}
            /\ UNCHANGED outcome
       ELSE EndRun("complete", drawn \cup {"chat_input"})
    /\ UNCHANGED <<envVars, cache, session_state, button, user_prompt,
                   rag_chain, response, rendered, request, trace, histVars>>

\* line 124
AppendUser ==
    /\ pc = "append"
    /\ session_state' =
           [session_state EXCEPT
               !.messages = AppendTurn(@, UserTurn(user_prompt))]
    /\ pc' = "echo"
    /\ UNCHANGED <<envVars, cache, button, user_prompt, rag_chain, response,
                   rendered, drawn, shown, request, trace, outcome, histVars>>

\* lines 125-130
Echo ==
    /\ pc = "echo"
    /\ request = NoRequest
    /\ pc' = "invoke"
    /\ UNCHANGED <<envVars, cache, session_state, button, user_prompt,
                   rag_chain, response, rendered, drawn, shown, request,
                   trace, outcome, histVars>>

\* line 132, the retriever or the embedding provider raises
InvokeRetrievalError ==
    /\ pc = "invoke"
    /\ rag_chain
    /\ EndRun("failed", drawn)
    /\ allOk' = FALSE
    /\ submits' = <<>>
    /\ UNCHANGED <<envVars, cache, session_state, button, user_prompt,
                   rag_chain, response, rendered, request, trace, atStart,
                   viaReset>>

\* line 132, the completion provider raises
InvokeCompletionError ==
    /\ pc = "invoke"
    /\ rag_chain
    /\ \E docs \in RetrieverResults :
           trace' = ChainInput(user_prompt, docs)
    /\ EndRun("failed", drawn)
    /\ allOk' = FALSE
    /\ submits' = <<>>
    /\ UNCHANGED <<envVars, cache, session_state, button, user_prompt,
                   rag_chain, response, rendered, request, atStart,
                   viaReset>>

\* line 132, the chain returns
InvokeOk ==
    /\ pc = "invoke"
    /\ rag_chain
    /\ \E docs \in RetrieverResults, text \in Answers :
           LET message == [content |-> text]
           IN  /\ trace' = [ChainInput(user_prompt, docs) EXCEPT
                               !.answered = TRUE, !.message = message]
               /\ response' = StrOutputParser(message)
    /\ pc' = "show"
    /\ UNCHANGED <<envVars, cache, session_state, button, user_prompt,
                   rag_chain, rendered, drawn, shown, request, outcome,
                   histVars>>

\* line 133
Show ==
    /\ pc = "show"
    /\ request = NoRequest
    /\ pc' = "store"
    /\ UNCHANGED <<envVars, cache, session_state, button, user_prompt,
                   rag_chain, response, rendered, drawn, shown, request,
                   trace, outcome, histVars>>

\* line 136
Store ==
    /\ pc = "store"
    /\ session_state' =
           [session_state EXCEPT
               !.messages = AppendTurn(@, AssistantTurn(response))]
    /\ EndRun("answered", drawn)
    /\ UNCHANGED <<envVars, cache, button, user_prompt, rag_chain, response,
                   rendered, request, trace, histVars>>

Next ==
    \/ ClickReset
    \/ \E q \in Questions : SubmitQuestion(q)
    \/ RequestRerun
    \/ StartRun
    \/ Interrupt
    \/ Secrets
    \/ Load
    \/ BuildChain
    \/ Sidebar
    \/ InitMessages
    \/ Render
    \/ ChatInput
    \/ AppendUser
    \/ Echo
    \/ InvokeRetrievalError
    \/ InvokeCompletionError
    \/ InvokeOk
    \/ Show
    \/ Store

Spec == Init /\ [][Next]_vars

-----------------------------------------------------------------------------
(* Properties *)

IsPrefix(s, t) == Len(s) <= Len(t) /\ SubSeq(t, 1, Len(s)) = s

StrictAlternation(t) ==
    /\ Len(t) % 2 = 0
    /\ \A i \in 1..Len(t) :
           t[i].role = IF i % 2 = 1 THEN "user" ELSE "assistant"

\* where chunk i starts in the joined context (0-based), counted from the
\* lengths of the chunks before it
RECURSIVE Offset(_, _)
Offset(docs, i) ==
    IF i = 1 THEN 0
    ELSE Offset(docs, i - 1) + Len(docs[i - 1].page_content) + 2

JoinedLen(docs) ==
    IF docs = <<>> THEN 0
    ELSE Offset(docs, Len(docs)) + Len(docs[Len(docs)].page_content)

\* C1: a submit whose pipeline failed leaves the transcript as it was when
\* the question was accepted (neither the user turn nor an assistant turn
\* is stored).
C1_FailedSubmitAppendsNothing ==
    (pc = "idle" /\ outcome = "failed") => Transcript = atStart

\* C2: whenever no script run (hence no pipeline invocation) is in progress,
\* the transcript is a strict alternation of user/assistant pairs of even
\* length, with no unpaired user turn.
C2_IdleTranscriptAlternates ==
    pc = "idle" => StrictAlternation(Transcript)

\* C3: after N submits since the transcript was last empty, all of which
\* succeeded, the transcript has exactly 2N turns, user then assistant, the
\* user turns carrying the questions in the order they were submitted.
C3_SuccessfulSubmits ==
    (pc = "idle" /\ allOk) =>
        /\ Len(Transcript) = 2 * Len(submits)
        /\ StrictAlternation(Transcript)
        /\ \A i \in 1..Len(submits) :
               Transcript[2 * i - 1] = [role |-> "user", content |-> submits[i]]

C3_Witness ==
    /\ pc = "idle"
    /\ allOk
    /\ Len(submits) = 2
    /\ submits[1] # submits[2]

\* C4: once the reset has run, the transcript is empty whatever it held
\* before, and the script run that follows renders no turn.
C4_ResetYieldsEmpty ==
    viaReset =>
        /\ session_state.has_messages
        /\ session_state.messages = <<>>
        /\ rendered = <<>>

C4_Witness ==
    /\ viaReset
    /\ pc = "idle"
    /\ outcome = "complete"
    /\ Len(atStart) = 3

\* C5: when the API key is absent or load_components fails, no run builds
\* the chain, no run gets past the st.stop() to the sidebar or the chat
\* input, no question is accepted and the session state is never written.
C5_ConfigFailureHalts ==
    ("GOOGLE_API_KEY" \notin secrets \/ ~components_ok) =>
        /\ ~rag_chain
        /\ pc \in {"secrets", "load", "idle"}
        /\ "chat_input" \notin shown
        /\ request.kind # "chat"
        /\ user_prompt = <<>>
        /\ ~trace.called
        /\ session_state = [has_messages |-> FALSE, messages |-> <<>>]

C5_Witness ==
    /\ cache = "fail"
    /\ pc = "load"
    /\ outcome = "stopped"

\* C6: a submitted question is never cancelled or overtaken: once its user
\* turn is stored, the run is not unwound by a later interaction before the
\* pipeline has answered (and the answer is stored) or failed.
C6_NeverCancelled ==
    outcome # "cancelled"

\* C7: the joined context holds every chunk's page_content in input order,
\* exactly "\n\n" between consecutive chunks, nothing before the first or
\* after the last; join([]) is empty, join([A]) is A, join([A,B]) is
\* A + "\n\n" + B.
C7_JoinOrderPreserving ==
    trace.called =>
        LET docs == trace.docs
            ctx == trace.context
            n == Len(docs)
        IN  /\ Len(ctx) = JoinedLen(docs)
            /\ \A i \in 1..n :
                   SubSeq(ctx, Offset(docs, i) + 1,
                          Offset(docs, i) + Len(docs[i].page_content))
                       = docs[i].page_content
            /\ \A i \in 2..n :
                   /\ ctx[Offset(docs, i) - 1] = "\n"
                   /\ ctx[Offset(docs, i)] = "\n"
            /\ n = 0 => ctx = <<>>
            /\ n = 1 => ctx = docs[1].page_content
            /\ n = 2 => ctx = docs[1].page_content \o <<"\n", "\n">>
                                  \o docs[2].page_content

C7_Witness ==
    /\ trace.called
    /\ Len(trace.docs) = 3
    /\ trace.docs[1] # trace.docs[2]
    /\ trace.docs[2] # trace.docs[3]

\* C8: the prompt handed to the completion provider is the template with
\* the context section holding every retrieved chunk verbatim in retrieval
\* order and the question section, after it, holding the question.
C8_PromptContains ==
    trace.called =>
        LET p == trace.prompt
            docs == trace.docs
            c == 2
            q == c + JoinedLen(docs) + 1
            e == Len(p)
        IN  /\ p[1] = "Instruksi"
            /\ p[c] = "Konteks:"
            /\ q < e
            /\ p[q] = "Pertanyaan:"
            /\ p[e] = "Jawaban yang Bermanfaat:"
            /\ SubSeq(p, q + 1, e - 1) = trace.question
            /\ trace.question = user_prompt
            /\ \A i \in 1..Len(docs) :
                   SubSeq(p, c + Offset(docs, i) + 1,
                          c + Offset(docs, i) + Len(docs[i].page_content))
                       = docs[i].page_content

C8_Witness ==
    /\ trace.called
    /\ Len(trace.docs) = 2
    /\ trace.docs[1] # trace.docs[2]
    /\ trace.question = <<"b", "a">>

\* C9: a successful submit appends exactly two turns: the user turn with
\* the submitted question, then the assistant turn with the text the
\* completion provider returned for the prompt of that question, unchanged.
C9_TurnsPairedWithSubmit ==
    (pc = "idle" /\ outcome = "answered") =>
        LET t == Transcript
            n == Len(t)
        IN  /\ n = Len(atStart) + 2
            /\ SubSeq(t, 1, n - 2) = atStart
            /\ t[n - 1] = [role |-> "user", content |-> user_prompt]
            /\ trace.answered
            /\ trace.question = user_prompt
            /\ t[n] = [role |-> "assistant", content |-> trace.message.content]

C9_Witness ==
    /\ pc = "idle"
    /\ outcome = "answered"
    /\ Len(Transcript) = 4
    /\ Transcript[1].content # Transcript[3].content
    /\ Transcript[4].content = <<"a", "y">>

\* C10: every step other than the reset keeps the stored turns as a prefix
\* of the transcript; the history loop, and every step of a run that got
\* neither a button press nor a question, leave the transcript unchanged.
C10_AppendOnly ==
    [][ /\ (pc = "sidebar" /\ button) \/ IsPrefix(Transcript, Transcript')
        /\ (pc = "render" \/ (pc # "idle" /\ ~button /\ user_prompt = <<>>))
               => Transcript' = Transcript ]_vars

C10_Witness ==
    /\ pc = "idle"
    /\ outcome = "answered"
    /\ Len(atStart) = 2
    /\ rendered = atStart

====
